---- MODULE Spec2Model ----
(***************************************************************************)
(* A model of the embedded calculator firmware: the calculator main loop   *)
(* of main.c (key classification, operand accumulation, sscanf parse,      *)
(* evaluation with overflow tests, result write-back), the parts of the    *)
(* LCD driver the loop calls, and the keypad driver of keypad_driver.c     *)
(* (interrupt handler, key_wait / key_get_wait, character tables).         *)
(*                                                                         *)
(* Characters are one-character strings; the string terminator is NUL.     *)
(* C ints are 32-bit two's complement; wide (64-bit) values are sequences  *)
(* of eight bytes, least significant first, so that sums and products of   *)
(* two ints can be formed exactly and compared against the int range.      *)
(***************************************************************************)
EXTENDS Integers, Sequences, FiniteSets, TLC

(***************************************************************************)
(* Bounds of the explored inputs.                                          *)
(***************************************************************************)
\* results written back (chained) since the last clear
MaxChain == 1
\* operator keypresses accepted within one expression
MaxOperators == 2

(***************************************************************************)
(* Program constants.                                                      *)
(***************************************************************************)
INT_MAX == 2147483647
INT_MIN == -2147483647 - 1
\* digits per operand, main.c "firstOperandLength < 9"
OperandDigitCap == 9
\* char opString[33]
OpStringSize == 33
\* LCD_ROW_LENGTH
LCD_ROW_LENGTH == 40
\* DATABUS_MAX_VALUE (0xFF)
DATABUS_MAX_VALUE == 255

NUL == "NUL"

DecimalDigits == <<"0", "1", "2", "3", "4", "5", "6", "7", "8", "9">>

IsDigitChar(c) == \E i \in 1..10 : DecimalDigits[i] = c

DigitValue(c) == (CHOOSE i \in 1..10 : DecimalDigits[i] = c) - 1

DigitChar(d) == DecimalDigits[d + 1]

(***************************************************************************)
(* 64-bit two's complement arithmetic on byte sequences.                   *)
(***************************************************************************)
Pow256(i) == IF i = 0 THEN 1 ELSE IF i = 1 THEN 256 ELSE IF i = 2 THEN 65536 ELSE 16777216

\* byte i (0 = least significant) of the 64-bit sign extension of int a
ByteOf(a, i) == IF i < 4 THEN (a \div Pow256(i)) % 256 ELSE IF a < 0 THEN 255 ELSE 0

Wide(a) == [i \in 1..8 |-> ByteOf(a, i - 1)]

RECURSIVE Carry(_, _, _)
\* bytes of the column sums cols (from column i on) with carry c, modulo 2^64
Carry(cols, i, c) ==
    IF i > 8 THEN <<>>
    ELSE LET s == cols[i] + c
         IN <<s % 256>> \o Carry(cols, i + 1, s \div 256)

WAdd(x, y) == Carry([i \in 1..8 |-> x[i] + y[i]], 1, 0)

WSub(x, y) == Carry([i \in 1..8 |-> x[i] + (255 - y[i])], 1, 1)

RECURSIVE ColumnSum(_, _, _, _)
\* sum over i = 1..k of x[i] * y[k + 1 - i], accumulated from i upward
ColumnSum(x, y, k, i) ==
    IF i > k THEN 0 ELSE x[i] * y[k + 1 - i] + ColumnSum(x, y, k, i + 1)

WMul(x, y) == Carry([k \in 1..8 |-> ColumnSum(x, y, k, 1)], 1, 0)

\* the wide value is the sign extension of its low 32 bits
FitsInt(w) ==
    LET ext == IF w[4] >= 128 THEN 255 ELSE 0
    IN \A i \in 5..8 : w[i] = ext

\* the low 32 bits of a wide value, read as a signed int
Low32(w) ==
    w[1] + 256 * w[2] + 65536 * w[3]
        + 16777216 * (IF w[4] >= 128 THEN w[4] - 256 ELSE w[4])

(***************************************************************************)
(* C int arithmetic: the value the instruction produces (wrapping) and     *)
(* whether the mathematical result left the int range (signed overflow).   *)
(***************************************************************************)
CAdd(a, b) ==
    LET w == WAdd(Wide(a), Wide(b)) IN [val |-> Low32(w), ovf |-> ~FitsInt(w)]

CSub(a, b) ==
    LET w == WSub(Wide(a), Wide(b)) IN [val |-> Low32(w), ovf |-> ~FitsInt(w)]

CMul(a, b) ==
    LET w == WMul(Wide(a), Wide(b)) IN [val |-> Low32(w), ovf |-> ~FitsInt(w)]

\* a / b for b > 0, truncated toward zero
TruncDivPos(a, b) ==
    IF a >= 0 THEN a \div b
    ELSE (a \div b) + (IF a % b # 0 THEN 1 ELSE 0)

\* a / b for b # 0: the SDIV instruction; INT_MIN / -1 overflows and yields INT_MIN
CDiv(a, b) ==
    IF b > 0 THEN [val |-> TruncDivPos(a, b), ovf |-> FALSE]
    ELSE IF b = INT_MIN THEN [val |-> IF a = INT_MIN THEN 1 ELSE 0, ovf |-> FALSE]
    ELSE IF a = INT_MIN /\ b = -1 THEN [val |-> INT_MIN, ovf |-> TRUE]
    ELSE [val |-> 0 - TruncDivPos(a, 0 - b), ovf |-> FALSE]

(***************************************************************************)
(* Text conversions of the C library, as the application uses them.        *)
(***************************************************************************)
RECURSIVE DigitsNonNeg(_)
DigitsNonNeg(n) ==
    IF n < 10 THEN <<DigitChar(n)>>
    ELSE DigitsNonNeg(n \div 10) \o <<DigitChar(n % 10)>>

RECURSIVE DigitsNeg(_)
\* the digits of |n| for n < 0, formed without negating n
DigitsNeg(n) ==
    IF n > -10 THEN <<DigitChar(0 - n)>>
    ELSE LET q == TruncDivPos(n, 10)
         IN DigitsNeg(q) \o <<DigitChar(q * 10 - n)>>

\* sprintf(buf, "%d", n): the characters written before the terminator
SprintfD(n) == IF n < 0 THEN <<"-">> \o DigitsNeg(n) ELSE DigitsNonNeg(n)

\* one more digit d onto acc, as strtol does: clamped at the ends of the range
Accumulate(acc, d, neg) ==
    IF neg
    THEN IF acc < TruncDivPos(INT_MIN + d, 10) THEN INT_MIN ELSE acc * 10 - d
    ELSE IF acc > (INT_MAX - d) \div 10 THEN INT_MAX ELSE acc * 10 + d

RECURSIVE ScanDigits(_, _, _, _)
ScanDigits(s, pos, acc, neg) ==
    IF IsDigitChar(s[pos])
    THEN ScanDigits(s, pos + 1, Accumulate(acc, DigitValue(s[pos]), neg), neg)
    ELSE [val |-> acc, next |-> pos]

\* the %d directive at position pos of the terminated string s: an optional
\* sign, then at least one digit; ok is FALSE on a matching or input failure
ScanInt(s, pos) ==
    LET signed == s[pos] \in {"+", "-"}
        neg == s[pos] = "-"
        start == IF signed THEN pos + 1 ELSE pos
    IN IF IsDigitChar(s[start])
       THEN LET r == ScanDigits(s, start, 0, neg)
            IN [ok |-> TRUE, val |-> r.val, next |-> r.next]
       ELSE [ok |-> FALSE, val |-> 0, next |-> start]

\* sscanf(s, "%d%c%d", ...): count is the number of items assigned; an item
\* beyond count is left unassigned
Sscanf(s) ==
    LET a == ScanInt(s, 1)
    IN IF ~a.ok THEN [count |-> 0, first |-> 0, op |-> NUL, second |-> 0]
       ELSE IF s[a.next] = NUL
            THEN [count |-> 1, first |-> a.val, op |-> NUL, second |-> 0]
            ELSE LET b == ScanInt(s, a.next + 1)
                 IN IF ~b.ok
                    THEN [count |-> 2, first |-> a.val, op |-> s[a.next], second |-> 0]
                    ELSE [count |-> 3, first |-> a.val, op |-> s[a.next], second |-> b.val]

RECURSIVE StrlenLoop(_, _)
\* opStringLength = 0; while (opString[opStringLength++ + 1] != '\0');
\* buf is 1-based, so C index n + 1 is buf[n + 2]
StrlenLoop(buf, n) ==
    IF buf[n + 2] # NUL THEN StrlenLoop(buf, n + 1) ELSE n + 1

(***************************************************************************)
(* The keypad driver's character table.                                    *)
(***************************************************************************)
defaultCharLUT ==
    <<NUL, "1", "2", "3", "A", "4", "5", "6", "B", "7", "8", "9", "C", "*", "0", "#", "D">>

\* key_to_char with the default table active
key_to_char(k) == IF k > 0 /\ k <= 16 THEN defaultCharLUT[k + 1] ELSE NUL

(***************************************************************************)
(* The LCD driver: each operation is the sequence of bus writes it makes.  *)
(* A write is [rs, data]: rs = 0 for an instruction, 1 for a character.    *)
(***************************************************************************)
Ascii(c) ==
    CASE c = NUL -> 0
      [] c = " " -> 32
      [] c = "#" -> 35
      [] c = "*" -> 42
      [] c = "+" -> 43
      [] c = "-" -> 45
      [] c = "." -> 46
      [] c = "/" -> 47
      [] IsDigitChar(c) -> 48 + DigitValue(c)
      [] c = "A" -> 65
      [] c = "B" -> 66
      [] c = "C" -> 67
      [] c = "D" -> 68
      [] c = "c" -> 99
      [] c = "e" -> 101
      [] c = "i" -> 105
      [] c = "n" -> 110

lcd_write_instruction(instruction) ==
    IF instruction <= DATABUS_MAX_VALUE
    THEN <<[rs |-> 0, data |-> instruction]>>
    ELSE <<>>

lcd_write_char(character) ==
    IF Ascii(character) <= DATABUS_MAX_VALUE
    THEN <<[rs |-> 1, data |-> Ascii(character)]>>
    ELSE <<>>

RECURSIVE lcd_print_string(_, _)
\* every character of s from offset on, up to the terminator
lcd_print_string(s, offset) ==
    IF s[offset] = NUL THEN <<>>
    ELSE lcd_write_char(s[offset]) \o lcd_print_string(s, offset + 1)

\* lcd_printf with the text vsprintf rendered
lcd_printf(text) == lcd_print_string(text \o <<NUL>>, 1)

\* lcd_printf("%c", c): a NUL character renders as the empty string
lcd_printf_c(c) == lcd_print_string(<<c, NUL>>, 1)

lcd_printf_d(n) == lcd_printf(SprintfD(n))

lcd_instr_clear == lcd_write_instruction(1)

lcd_instr_return_home == lcd_write_instruction(2)

lcd_instr_display_on_off(displayOn, cursorOn, cursorBlinkOn) ==
    lcd_write_instruction(8 + (IF displayOn # 0 THEN 4 ELSE 0)
                            + (IF cursorOn # 0 THEN 2 ELSE 0)
                            + (IF cursorBlinkOn # 0 THEN 1 ELSE 0))

lcd_instr_cursor_display_shift(shiftSelect, direction) ==
    lcd_write_instruction(16 + (IF shiftSelect # 0 THEN 8 ELSE 0)
                             + (IF direction # 0 THEN 4 ELSE 0))

lcd_instr_entry_mode_set(cursorDirection, displayShift) ==
    lcd_write_instruction(4 + (IF cursorDirection # 0 THEN 2 ELSE 0)
                            + (IF displayShift # 0 THEN 1 ELSE 0))

lcd_instr_function_set(dataInterface, lineNumber, fontSize) ==
    lcd_write_instruction(32 + (IF dataInterface # 0 THEN 16 ELSE 0)
                             + (IF lineNumber # 0 THEN 8 ELSE 0)
                             + (IF fontSize # 0 THEN 4 ELSE 0))

lcd_clear == lcd_instr_clear

lcd_cursor_home == lcd_instr_return_home

RECURSIVE Repeat(_, _)
Repeat(writes, n) == IF n <= 0 THEN <<>> ELSE writes \o Repeat(writes, n - 1)

\* lcd_cursor_set with one shift, not a row length of them, for each value of y
lcd_cursor_set_OneShiftPerRow(cx, cy) ==
    lcd_cursor_home
        \o Repeat(lcd_instr_cursor_display_shift(0, 1), cy)
        \o Repeat(lcd_instr_cursor_display_shift(0, 1), cx)

lcd_cursor_set(cx, cy) ==
    lcd_cursor_home
        \o Repeat(lcd_instr_cursor_display_shift(0, 1), cy * LCD_ROW_LENGTH)
        \o Repeat(lcd_instr_cursor_display_shift(0, 1), cx)

lcd_cursor_show == lcd_instr_display_on_off(1, 0, 1)

lcd_cursor_hide == lcd_instr_display_on_off(1, 0, 0)

(***************************************************************************)
(* The evaluation of main.c: the overflow and underflow tests and the      *)
(* arithmetic of each case of the switch on operatorChar.                  *)
(***************************************************************************)
\* AddOverflow with >= for >: INT_MAX itself is taken for an overflow
AddOverflowOffByOne(first, second) == second > 0 /\ first >= CSub(INT_MAX, second).val

\* case '+': overflow = (secondOperand > 0) && (firstOperand > INT_MAX - secondOperand)
AddOverflow(first, second) == second > 0 /\ first > CSub(INT_MAX, second).val

\* case '+': underflow = (secondOperand < 0) && (firstOperand < INT_MIN - secondOperand)
AddUnderflow(first, second) == second < 0 /\ first < CSub(INT_MIN, second).val

\* case '-': overflow = (secondOperand < 0) && (firstOperand > INT_MAX + secondOperand)
SubOverflow(first, second) == second < 0 /\ first > CAdd(INT_MAX, second).val

\* case '-': underflow = (secondOperand > 0) && (firstOperand < INT_MIN + secondOperand)
SubUnderflow(first, second) == second > 0 /\ first < CAdd(INT_MIN, second).val

\* the outcome of one evaluation: the value left in result, whether the
\* processor trapped, whether a division by zero was executed, and whether
\* some executed int operation overflowed
Outcome(r, trapped, byZero, ovf) ==
    [result |-> r, trapped |-> trapped, divByZero |-> byZero, signedOverflow |-> ovf]

EvalAdd(first, second) ==
    LET overflow == AddOverflow(first, second)
        underflow == AddUnderflow(first, second)
        sum == CAdd(first, second)
        ovf == \/ second > 0 /\ CSub(INT_MAX, second).ovf
               \/ second < 0 /\ CSub(INT_MIN, second).ovf
               \/ ~(overflow \/ underflow) /\ sum.ovf
    IN Outcome(IF overflow \/ underflow THEN 0 ELSE sum.val, FALSE, FALSE, ovf)

EvalSub(first, second) ==
    LET overflow == SubOverflow(first, second)
        underflow == SubUnderflow(first, second)
        diff == CSub(first, second)
        ovf == \/ second < 0 /\ CAdd(INT_MAX, second).ovf
               \/ second > 0 /\ CAdd(INT_MIN, second).ovf
               \/ ~(overflow \/ underflow) /\ diff.ovf
    IN Outcome(IF overflow \/ underflow THEN 0 ELSE diff.val, FALSE, FALSE, ovf)

\* case '*': both quotients are formed before any test of secondOperand.
\* Division by zero is undefined: with the divide-by-zero trap enabled the
\* processor faults, otherwise SDIV yields 0.
EvalMul(first, second, trap) ==
    IF second = 0 /\ trap THEN Outcome(0, TRUE, TRUE, FALSE)
    ELSE LET qmax == IF second = 0 THEN [val |-> 0, ovf |-> FALSE] ELSE CDiv(INT_MAX, second)
             qmin == IF second = 0 THEN [val |-> 0, ovf |-> FALSE] ELSE CDiv(INT_MIN, second)
             overflow == first > qmax.val
             underflow == first < qmin.val
             product == CMul(first, second)
             ovf == qmax.ovf \/ qmin.ovf \/ (~(overflow \/ underflow) /\ product.ovf)
         IN Outcome(IF overflow \/ underflow THEN 0 ELSE product.val,
                    FALSE, second = 0, ovf)

\* case '/': if (secondOperand == 0) result = 0; else result = firstOperand / secondOperand
EvalDiv(first, second) ==
    IF second = 0 THEN Outcome(0, FALSE, FALSE, FALSE)
    ELSE LET q == CDiv(first, second) IN Outcome(q.val, FALSE, FALSE, q.ovf)

\* switch (operatorChar)
Evaluate(first, op, second, trap) ==
    CASE op = "+" -> EvalAdd(first, second)
      [] op = "-" -> EvalSub(first, second)
      [] op = "*" -> EvalMul(first, second, trap)
      [] op = "/" -> EvalDiv(first, second)
      [] OTHER -> Outcome(0, FALSE, FALSE, FALSE)

(***************************************************************************)
(* The calculator application: the state of main and one action per        *)
(* branch of its loop body.                                                *)
(***************************************************************************)
VARIABLES
    opString,              \* the characters at indices 0 .. opStringLength - 1 of the buffer
    opStringLength,
    firstOperandLength,
    secondOperandLength,
    operatorEntered,
    secondOperandEntered,
    resultDisplayed,
    key,                   \* the key code the last key_get_wait returned, 0 before the first
    firstOperand,          \* the locals of the equals branch, as its last run left them
    operatorChar,
    secondOperand,
    result,
    scanCount,             \* items sscanf assigned in this iteration, 0 if it was not called
    terminatedLength,      \* opStringLength after the terminator was appended, 0 if it was not
    divByZero,             \* this iteration executed a division whose divisor was 0
    signedOverflow,        \* this iteration executed an int operation that overflowed
    fault,                 \* "none", or how the program left defined execution
    lcdOut,                \* the bus writes made to the LCD in this iteration
    chain,                 \* results written back since the last clear
    pc                     \* "wait" in the main loop; "parsed" / "evaluated" for one evaluation

\* the state of the keypad driver and the arguments of the driver calls
VARIABLES
    lastKeypress,          \* static char lastKeypress
    unread,                \* lastKeypress holds a nonzero value the handler stored and no
                           \* key_get_wait call has returned
    charLUT,               \* the table the pointer charLUT points to
    extiIMR,               \* TRUE when EXTI0-EXTI3 are unmasked in EXTI_IMR
    gpiocMODER,            \* "idle": columns inputs, rows outputs; "reversed": the opposite
    extiPR,                \* the columns whose bit is set in EXTI_PR
    isrPc,                 \* the handler's next statement, "idle" when none executes
    column,                \* the handler's parameter
    row,                   \* the handler's local
    waitPc,                \* the foreground's position in key_wait / key_get_wait
    polled,                \* what the last key_get() of the polling loop returned
    call,                  \* the driver function the foreground called last
    keyArg,                \* the argument of the last key_to_char call
    character,             \* what the last character-returning call returned
    cursorX,               \* the arguments of the last lcd_cursor_set call
    cursorY,
    gpioaMODER,            \* "input" / "output": the mode of the LCD data bus pins PA4-PA11
    gpiocControl,          \* "input" / "output": the mode of the LCD pins RS, RW and E
    initPc                 \* lcd_init's next statement, "done" once it has returned

\* the variables of main
application ==
    <<opString, opStringLength, firstOperandLength, secondOperandLength, operatorEntered,
      secondOperandEntered, resultDisplayed, key, firstOperand, operatorChar, secondOperand,
      result, scanCount, terminatedLength, divByZero, signedOverflow, fault, lcdOut, chain, pc>>

\* the variables of the drivers
driver ==
    <<lastKeypress, unread, charLUT, extiIMR, gpiocMODER, extiPR, isrPc, column, row, waitPc,
      polled, call, keyArg, character, cursorX, cursorY, gpioaMODER, gpiocControl, initPc>>

\* the LCD's port configuration and the position of lcd_init
lcdPort == <<gpioaMODER, gpiocControl, initPc>>

vars ==
    <<opString, opStringLength, firstOperandLength, secondOperandLength, operatorEntered,
      secondOperandEntered, resultDisplayed, key, firstOperand, operatorChar, secondOperand,
      result, scanCount, terminatedLength, divByZero, signedOverflow, fault, lcdOut, chain, pc,
      lastKeypress, unread, charLUT, extiIMR, gpiocMODER, extiPR, isrPc, column, row, waitPc,
      polled, call, keyArg, character, cursorX, cursorY, gpioaMODER, gpiocControl, initPc>>

\* the keypad driver after key_init, no call in progress
KeypadReady ==
    /\ lastKeypress = 0
    /\ unread = FALSE
    /\ charLUT = defaultCharLUT
    /\ extiIMR = TRUE
    /\ gpiocMODER = "idle"
    /\ extiPR = {}
    /\ isrPc = "idle"
    /\ column = 0
    /\ row = 0
    /\ waitPc = "idle"
    /\ polled = 0
    /\ call = "none"
    /\ keyArg = 0
    /\ character = NUL
    /\ cursorX = 0
    /\ cursorY = 0

\* the LCD's pins after lcd_init
LcdReady ==
    /\ gpioaMODER = "output"
    /\ gpiocControl = "output"
    /\ initPc = "done"

\* the drivers after key_init and lcd_init
DriverInit == KeypadReady /\ LcdReady

\* the variables of the expression being entered
entry ==
    <<opString, opStringLength, firstOperandLength, secondOperandLength, operatorEntered,
      secondOperandEntered, resultDisplayed>>

\* values an int that was never assigned may hold
IndeterminateInts == {INT_MIN, -1, 0, 1, INT_MAX}

\* key codes the explored key sequences are made of
DigitInputs == {1, 2, 3, 11, 14}
OperatorInputs == {4, 8, 12, 16}
ClearInputs == {13, 17}

\* main's locals when the loop is entered
MainInit ==
    /\ opString = <<>>
    /\ opStringLength = 0
    /\ firstOperandLength = 0
    /\ secondOperandLength = 0
    /\ operatorEntered = FALSE
    /\ secondOperandEntered = FALSE
    /\ resultDisplayed = FALSE
    /\ key = 0
    /\ firstOperand = 0
    /\ operatorChar = NUL
    /\ secondOperand = 0
    /\ result = 0
    /\ scanCount = 0
    /\ terminatedLength = 0
    /\ divByZero = FALSE
    /\ signedOverflow = FALSE
    /\ fault = "none"
    /\ lcdOut = <<>>
    /\ chain = 0
    /\ pc = "wait"

Init == MainInit /\ DriverInit

\* if ((key >= 1 && key < 4) || (key >= 5 && key < 8) || (key >= 9 && key < 12) || (key == 14))
IsDigitKey(k) ==
    (k >= 1 /\ k < 4) \/ (k >= 5 /\ k < 8) \/ (k >= 9 /\ k < 12) \/ (k = 14)

\* else if ((key == 4) || (key == 8) || (key == 12) || (key == 16))
IsOperatorKey(k) == (k = 4) \/ (k = 8) \/ (k = 12) \/ (k = 16)

\* else if (key == 15)
IsEqualsKey(k) == k = 15

\* switch (key) of the operator branch
OperatorCharOf(k) ==
    CASE k = 4 -> "+"
      [] k = 8 -> "-"
      [] k = 12 -> "*"
      [] k = 16 -> "/"

\* DigitAllowed with <= for <: a tenth digit is let through
DigitAllowedOffByOne ==
    \/ ~operatorEntered /\ firstOperandLength <= OperandDigitCap
    \/ operatorEntered /\ secondOperandLength <= OperandDigitCap

\* the respective operand is shorter than 9 digits
DigitAllowed ==
    \/ ~operatorEntered /\ firstOperandLength < OperandDigitCap
    \/ operatorEntered /\ secondOperandLength < OperandDigitCap

\* OperatorAllowed without the test for an empty buffer
OperatorAllowedOnEmpty == ~secondOperandEntered

\* if (opStringLength != 0 && !secondOperandEntered)
OperatorAllowed == opStringLength # 0 /\ ~secondOperandEntered

\* opString[index] = c for index = opStringLength; characters above the
\* index are not kept, the program never reads them before rewriting them
StoreChar(buf, index, c) ==
    IF index < Len(buf) THEN SubSeq(buf, 1, index) \o <<c>> ELSE Append(buf, c)

\* no evaluation in this iteration: the locals of the equals branch are dead
NoEvaluation ==
    /\ firstOperand' = 0
    /\ operatorChar' = NUL
    /\ secondOperand' = 0
    /\ result' = 0
    /\ scanCount' = 0
    /\ terminatedLength' = 0
    /\ divByZero' = FALSE
    /\ signedOverflow' = FALSE

\* a store at or beyond opString[33]: undefined, the program is not followed further
Overrun(k) ==
    /\ fault' = "overrun"
    /\ key' = k
    /\ lcdOut' = <<>>
    /\ NoEvaluation
    /\ UNCHANGED <<entry, chain, pc>>

\* a key the branch ignores
Ignore(k) ==
    /\ key' = k
    /\ lcdOut' = <<>>
    /\ NoEvaluation
    /\ UNCHANGED <<entry, fault, chain, pc>>

DigitKey(k) ==
    /\ pc = "wait" /\ fault = "none"
    /\ IsDigitKey(k)
    /\ IF ~resultDisplayed /\ DigitAllowed
       THEN IF opStringLength >= OpStringSize
            THEN Overrun(k)
            ELSE /\ firstOperandLength' =
                        IF ~operatorEntered THEN firstOperandLength + 1 ELSE firstOperandLength
                 /\ secondOperandLength' =
                        IF operatorEntered THEN secondOperandLength + 1 ELSE secondOperandLength
                 /\ secondOperandEntered' =
                        IF operatorEntered THEN TRUE ELSE secondOperandEntered
                 /\ opString' = StoreChar(opString, opStringLength, key_to_char(k))
                 /\ opStringLength' = opStringLength + 1
                 /\ lcdOut' = lcd_printf_c(key_to_char(k))
                 /\ key' = k
                 /\ NoEvaluation
                 /\ UNCHANGED <<operatorEntered, resultDisplayed, fault, chain, pc>>
       ELSE Ignore(k)

OperatorKey(k) ==
    /\ pc = "wait" /\ fault = "none"
    /\ ~IsDigitKey(k) /\ IsOperatorKey(k)
    /\ IF OperatorAllowed
       THEN IF opStringLength >= OpStringSize
            THEN Overrun(k)
            ELSE /\ operatorEntered' = TRUE
                 /\ resultDisplayed' = FALSE
                 /\ opString' = StoreChar(opString, opStringLength, OperatorCharOf(k))
                 /\ opStringLength' = opStringLength + 1
                 /\ lcdOut' = lcd_cursor_set(15, 0)
                                \o lcd_printf_c(OperatorCharOf(k))
                                \o lcd_cursor_set(0, 1)
                 /\ key' = k
                 /\ NoEvaluation
                 /\ UNCHANGED <<firstOperandLength, secondOperandLength,
                                secondOperandEntered, fault, chain, pc>>
       ELSE Ignore(k)

\* the cosmetic sequence for a result of 69
NiceSequence ==
    lcd_cursor_hide
        \o lcd_printf(<<" ">>)
        \o lcd_printf(<<".">>) \o lcd_printf(<<".">>) \o lcd_printf(<<".">>)
        \o lcd_printf(<<" ", "n", "i", "c", "e", ".">>)
        \o lcd_cursor_show

\* the equals branch after the parse: evaluation, display, write-back
Evaluation(k, terminated, scan, first, op, second, trap) ==
    LET e == Evaluate(first, op, second, trap)
        written == SprintfD(e.result) \o <<NUL>>
        length == StrlenLoop(written, 0)
    IN /\ key' = k
       /\ firstOperand' = first
       /\ operatorChar' = op
       /\ secondOperand' = second
       /\ scanCount' = scan.count
       /\ terminatedLength' = opStringLength + 1
       /\ divByZero' = e.divByZero
       /\ signedOverflow' = e.signedOverflow
       /\ result' = e.result
       /\ IF e.trapped
          THEN /\ fault' = "div0"
               /\ opString' = terminated
               /\ opStringLength' = opStringLength + 1
               /\ lcdOut' = <<>>
               /\ UNCHANGED <<firstOperandLength, secondOperandLength, operatorEntered,
                              secondOperandEntered, resultDisplayed, chain, pc>>
          ELSE /\ lcdOut' = lcd_clear \o lcd_printf_d(e.result)
                              \o (IF e.result = 69 THEN NiceSequence ELSE <<>>)
               /\ opString' = SubSeq(written, 1, length)
               /\ opStringLength' = length
               /\ firstOperandLength' = length
               /\ secondOperandLength' = 0
               /\ operatorEntered' = FALSE
               /\ secondOperandEntered' = FALSE
               /\ resultDisplayed' = TRUE
               /\ chain' = chain + 1
               /\ UNCHANGED <<fault, pc>>

EqualsKey(k) ==
    /\ pc = "wait" /\ fault = "none"
    /\ ~IsDigitKey(k) /\ ~IsOperatorKey(k) /\ IsEqualsKey(k)
    /\ IF secondOperandEntered
       THEN IF opStringLength >= OpStringSize
            THEN Overrun(k)
            ELSE LET terminated == StoreChar(opString, opStringLength, NUL)
                     scan == Sscanf(terminated)
                 IN \E first \in (IF scan.count >= 1 THEN {scan.first} ELSE IndeterminateInts),
                       op \in (IF scan.count >= 2 THEN {scan.op} ELSE {NUL, "+"}),
                       second \in (IF scan.count >= 3 THEN {scan.second} ELSE IndeterminateInts),
                       trap \in BOOLEAN :
                        Evaluation(k, terminated, scan, first, op, second, trap)
       ELSE Ignore(k)

\* ResetFlags without the reset of resultDisplayed
ResetFlagsKeepsResult ==
    /\ operatorEntered' = FALSE
    /\ secondOperandEntered' = FALSE
    /\ resultDisplayed' = resultDisplayed

\* the clear branch: reset operand entered flags
ResetFlags ==
    /\ operatorEntered' = FALSE
    /\ secondOperandEntered' = FALSE
    /\ resultDisplayed' = FALSE

\* ClearKey without the reset of secondOperandLength
ClearKeyKeepsSecondLength(k) ==
    /\ pc = "wait" /\ fault = "none"
    /\ ~IsDigitKey(k) /\ ~IsOperatorKey(k) /\ ~IsEqualsKey(k)
    /\ opStringLength' = 0
    /\ opString' = <<>>
    /\ firstOperandLength' = 0
    /\ secondOperandLength' = secondOperandLength
    /\ ResetFlags
    /\ lcdOut' = lcd_clear
    /\ key' = k
    /\ chain' = 0
    /\ NoEvaluation
    /\ UNCHANGED <<fault, pc>>

ClearKey(k) ==
    /\ pc = "wait" /\ fault = "none"
    /\ ~IsDigitKey(k) /\ ~IsOperatorKey(k) /\ ~IsEqualsKey(k)
    /\ opStringLength' = 0
    /\ opString' = <<>>
    /\ firstOperandLength' = 0
    /\ secondOperandLength' = 0
    /\ ResetFlags
    /\ lcdOut' = lcd_clear
    /\ key' = k
    /\ chain' = 0
    /\ NoEvaluation
    /\ UNCHANGED <<fault, pc>>

(***************************************************************************)
(* The explored key sequences.  Every key the loop ignores may be pressed  *)
(* in every state.  Accepted keys build expressions from a few operand     *)
(* texts: the first expression after a clear has operands 0, 3, 9, 12 or   *)
(* 999999999 and up to MaxOperators operator keys, a chained expression    *)
(* (one that starts from a displayed result) has one operator key and the  *)
(* second operand 0, 9 or 999999999; at most MaxChain expressions are      *)
(* chained.                                                                *)
(***************************************************************************)
ActiveLength == IF operatorEntered THEN secondOperandLength ELSE firstOperandLength

\* the characters of the operand being entered
ActiveText == SubSeq(opString, opStringLength - ActiveLength + 1, opStringLength)

\* operator characters in the buffer
OperatorCount == opStringLength - firstOperandLength - secondOperandLength

Nines == [i \in 1..OperandDigitCap |-> "9"]

OperandTexts ==
    IF chain = 0 THEN {<<"0">>, <<"3">>, <<"9">>, <<"1", "2">>, Nines}
    ELSE {<<"0">>, <<"9">>, Nines}

IsPrefix(t, u) == Len(t) <= Len(u) /\ SubSeq(u, 1, Len(t)) = t

\* operator keys explored after the first operator of an expression
RepeatOperatorInputs == {8, 12}

KeyInputs == DigitInputs \cup OperatorInputs \cup {15} \cup ClearInputs

\* a digit key extends the operand towards one of the texts, or is pressed
\* where the text is complete or a result is displayed
DigitExplored(k) ==
    \/ resultDisplayed
    \/ ActiveText = Nines
    \/ \E u \in OperandTexts : IsPrefix(Append(ActiveText, key_to_char(k)), u)

\* an operator key is pressed on an empty buffer, after a complete first
\* operand or a displayed result, again before the second operand, or once
\* the second operand has begun
OperatorExplored(k) ==
    \/ opStringLength = 0
    \/ secondOperandLength > 0
    \/ /\ OperatorCount = 0
       /\ IF resultDisplayed THEN chain <= MaxChain ELSE ActiveText \in OperandTexts
    \/ /\ OperatorCount >= 1
       /\ chain = 0
       /\ OperatorCount < MaxOperators
       /\ k \in RepeatOperatorInputs

\* the equals key is pressed before a second operand or after a complete one
EqualsExplored == secondOperandLength = 0 \/ ActiveText \in OperandTexts

Explored(k) ==
    \/ k \in DigitInputs /\ DigitExplored(k)
    \/ k \in OperatorInputs /\ OperatorExplored(k)
    \/ k = 15 /\ EqualsExplored
    \/ k \in ClearInputs

\* one iteration of while (1): key = key_get_wait(), then the branch for key
PressDigit == (\E k \in KeyInputs : Explored(k) /\ DigitKey(k)) /\ UNCHANGED driver

PressOperator == (\E k \in KeyInputs : Explored(k) /\ OperatorKey(k)) /\ UNCHANGED driver

PressEquals == (\E k \in KeyInputs : Explored(k) /\ EqualsKey(k)) /\ UNCHANGED driver

PressClear == (\E k \in KeyInputs : Explored(k) /\ ClearKey(k)) /\ UNCHANGED driver

Next == PressDigit \/ PressOperator \/ PressEquals \/ PressClear

Spec == Init /\ [][Next]_vars

(***************************************************************************)
(* Long expressions: the keys 1, +, = and clear pressed in any order, with *)
(* no limit on the run of operator keys; at most MaxChain evaluations are  *)
(* made before a clear.                                                    *)
(***************************************************************************)
RunInputs == {1, 4, 13, 15}

RunDigit == (\E k \in RunInputs : DigitKey(k)) /\ UNCHANGED driver

RunOperator == (\E k \in RunInputs : OperatorKey(k)) /\ UNCHANGED driver

RunEquals == chain < MaxChain /\ (\E k \in RunInputs : EqualsKey(k)) /\ UNCHANGED driver

RunClear == (\E k \in RunInputs : ClearKey(k)) /\ UNCHANGED driver

NextRun == RunDigit \/ RunOperator \/ RunEquals \/ RunClear

SpecRun == Init /\ [][NextRun]_vars

(***************************************************************************)
(* One evaluation on its own: operands and operator as the parse may       *)
(* leave them, then the switch on operatorChar.                            *)
(***************************************************************************)
EvalInts ==
    {INT_MIN, INT_MIN + 1, -999999999, -9, -1, 0, 1, 9, 999999999, INT_MAX - 1, INT_MAX}

EvalOps == {"+", "-", "*", "/", "#"}

InitEval ==
    /\ opString = <<>>
    /\ opStringLength = 0
    /\ firstOperandLength = 0
    /\ secondOperandLength = 0
    /\ operatorEntered = FALSE
    /\ secondOperandEntered = FALSE
    /\ resultDisplayed = FALSE
    /\ key = 15
    /\ firstOperand \in EvalInts
    /\ operatorChar \in EvalOps
    /\ secondOperand \in EvalInts
    /\ result = 0
    /\ scanCount = 3
    /\ terminatedLength = 0
    /\ divByZero = FALSE
    /\ signedOverflow = FALSE
    /\ fault = "none"
    /\ lcdOut = <<>>
    /\ chain = 0
    /\ pc = "parsed"
    /\ DriverInit

EvaluateStep ==
    /\ pc = "parsed"
    /\ \E trap \in BOOLEAN :
         LET e == Evaluate(firstOperand, operatorChar, secondOperand, trap)
         IN /\ result' = e.result
            /\ divByZero' = e.divByZero
            /\ signedOverflow' = e.signedOverflow
            /\ fault' = IF e.trapped THEN "div0" ELSE fault
    /\ pc' = "evaluated"
    /\ UNCHANGED <<entry, key, firstOperand, operatorChar, secondOperand, scanCount,
                   terminatedLength, lcdOut, chain>>
    /\ UNCHANGED driver

NextEval == EvaluateStep

SpecEval == InitEval /\ [][NextEval]_vars

(***************************************************************************)
(* The keypad driver.  The interrupt handler is one action per statement;  *)
(* the foreground runs only while no handler executes and no unmasked      *)
(* request is pending.  A rising edge on a column line sets its pending    *)
(* bit only while the lines are unmasked.                                  *)
(***************************************************************************)
\* rowLUT with the rows one place later
rowLUTShifted == <<0, 0, 0, 1, 1, 2, 2, 2, 2>>

\* const static int rowLUT[9]
rowLUT == <<0, 0, 1, 1, 2, 2, 2, 2, 3>>

\* the columns of EXTI_0_THRU_4 and the values of (*gpiocIDR >> 4) & 0xF
Columns == 0..3
RowSamples == 0..15

\* values the int read at rowLUT[9], one past the table, may hold
IndeterminateRows == {-1, 4, 64}

\* values a char read past the end of a 17-entry table may hold
IndeterminateChars == {NUL, "?"}

\* rowLUT[r]
RowLookup(r) == IF r < Len(rowLUT) THEN {rowLUT[r + 1]} ELSE IndeterminateRows

\* ValidRow without the upper limit
ValidRowNoUpperLimit(r) == r > 0

\* if (row > 0 && row <= 9)
ValidRow(r) == r > 0 /\ r <= 9

\* the conversion of an int to the (unsigned) char lastKeypress
ToChar(n) == n % 256

\* the handler's frame: what no statement of it touches
HandlerFrame ==
    UNCHANGED <<application, charLUT, waitPc, polled, call, keyArg, character, cursorX, cursorY,
                lcdPort>>

\* a rising edge on the line of column c, latched while the lines are unmasked
Edge(c) ==
    /\ extiIMR
    /\ c \notin extiPR
    /\ extiPR' = extiPR \cup {c}
    /\ UNCHANGED <<lastKeypress, unread, extiIMR, gpiocMODER, isrPc, column, row>>
    /\ HandlerFrame

\* EXTIc_IRQHandler: key_interrupt_handler(c).  key_init leaves the four
\* interrupts at their reset priority, so none preempts another: a pending
\* one is taken once no handler executes.
Dispatch(c) ==
    /\ isrPc = "idle"
    /\ c \in extiPR
    /\ isrPc' = "mask"
    /\ column' = c
    /\ UNCHANGED <<lastKeypress, unread, extiIMR, gpiocMODER, extiPR, row>>
    /\ HandlerFrame

\* Mask without the write to EXTI_IMR
MaskNothing ==
    /\ isrPc = "mask"
    /\ extiIMR' = extiIMR
    /\ isrPc' = "reverse"
    /\ UNCHANGED <<lastKeypress, unread, gpiocMODER, extiPR, column, row>>
    /\ HandlerFrame

\* * extiIMR &= ~(EXTI_0_THRU_4)
Mask ==
    /\ isrPc = "mask"
    /\ extiIMR' = FALSE
    /\ isrPc' = "reverse"
    /\ UNCHANGED <<lastKeypress, unread, gpiocMODER, extiPR, column, row>>
    /\ HandlerFrame

\* set rows as inputs and columns as outputs
Reverse ==
    /\ isrPc = "reverse"
    /\ gpiocMODER' = "reversed"
    /\ isrPc' = "sample"
    /\ UNCHANGED <<lastKeypress, unread, extiIMR, extiPR, column, row>>
    /\ HandlerFrame

\* delay_ms(40); int row = (* gpiocIDR >> 4) & 0xF, the port reading r
Sample(r) ==
    /\ isrPc = "sample"
    /\ row' = r
    /\ isrPc' = "store"
    /\ UNCHANGED <<lastKeypress, unread, extiIMR, gpiocMODER, extiPR, column>>
    /\ HandlerFrame

\* if (row > 0 && row <= 9) { row = rowLUT[row]; lastKeypress = row * 4 + column + 1; }
Store ==
    /\ isrPc = "store"
    /\ IF ValidRow(row)
       THEN \E v \in RowLookup(row) :
              /\ row' = v
              /\ lastKeypress' = ToChar(v * 4 + column + 1)
              /\ unread' = (ToChar(v * 4 + column + 1) # 0)
       ELSE UNCHANGED <<row, lastKeypress, unread>>
    /\ isrPc' = "restore"
    /\ UNCHANGED <<extiIMR, gpiocMODER, extiPR, column>>
    /\ HandlerFrame

\* set rows as outputs and columns as inputs
Restore ==
    /\ isrPc = "restore"
    /\ gpiocMODER' = "idle"
    /\ isrPc' = "clear"
    /\ UNCHANGED <<lastKeypress, unread, extiIMR, extiPR, column, row>>
    /\ HandlerFrame

\* ClearPending writing all four bits
ClearAllPending ==
    /\ isrPc = "clear"
    /\ extiPR' = {}
    /\ isrPc' = "unmask"
    /\ UNCHANGED <<lastKeypress, unread, extiIMR, gpiocMODER, column, row>>
    /\ HandlerFrame

\* * extiPR = (1 << column)
ClearPending ==
    /\ isrPc = "clear"
    /\ extiPR' = extiPR \ {column}
    /\ isrPc' = "unmask"
    /\ UNCHANGED <<lastKeypress, unread, extiIMR, gpiocMODER, column, row>>
    /\ HandlerFrame

\* * extiIMR |= EXTI_0_THRU_4, and the return: the parameter and the local die
Unmask ==
    /\ isrPc = "unmask"
    /\ extiIMR' = TRUE
    /\ isrPc' = "idle"
    /\ column' = 0
    /\ row' = 0
    /\ UNCHANGED <<lastKeypress, unread, gpiocMODER, extiPR>>
    /\ HandlerFrame

\* the foreground executes: no handler does and no request is pending
Foreground == isrPc = "idle" /\ extiPR = {}

\* what no foreground function of the keypad driver touches
ForegroundFrame ==
    UNCHANGED <<opString, opStringLength, firstOperandLength, secondOperandLength,
                operatorEntered, secondOperandEntered, resultDisplayed, firstOperand,
                operatorChar, secondOperand, result, scanCount, terminatedLength, divByZero,
                signedOverflow, fault, lcdOut, chain, pc,
                extiIMR, gpiocMODER, extiPR, isrPc, column, row, cursorX, cursorY, lcdPort>>

\* key_clear()
KeyClear ==
    /\ Foreground
    /\ waitPc = "idle"
    /\ lastKeypress' = 0
    /\ unread' = FALSE
    /\ call' = "key_clear"
    /\ UNCHANGED <<waitPc, polled, key, charLUT, keyArg, character>>
    /\ ForegroundFrame

\* key_wait() or key_get_wait(), as f names it: key_clear() of key_wait
KeyWaitClear(f) ==
    /\ Foreground
    /\ waitPc = "idle"
    /\ lastKeypress' = 0
    /\ unread' = FALSE
    /\ waitPc' = "poll"
    /\ polled' = 0
    /\ call' = f
    /\ UNCHANGED <<key, charLUT, keyArg, character>>
    /\ ForegroundFrame

\* key_wait(): one iteration of while (key_get() == 0), then the return
KeyWaitPoll ==
    /\ Foreground
    /\ waitPc = "poll"
    /\ polled' = lastKeypress
    /\ waitPc' = IF lastKeypress = 0 THEN "poll"
                 ELSE IF call = "key_get_wait" THEN "read" ELSE "idle"
    /\ UNCHANGED <<lastKeypress, unread, call, key, charLUT, keyArg, character>>
    /\ ForegroundFrame

\* KeyGetWaitRead consuming the key it returns
KeyGetWaitReadClears ==
    /\ Foreground
    /\ waitPc = "read"
    /\ key' = lastKeypress
    /\ lastKeypress' = 0
    /\ unread' = FALSE
    /\ waitPc' = "idle"
    /\ UNCHANGED <<polled, call, charLUT, keyArg, character>>
    /\ ForegroundFrame

\* key_get_wait(): return key_get(), the value main assigns to key
KeyGetWaitRead ==
    /\ Foreground
    /\ waitPc = "read"
    /\ key' = lastKeypress
    /\ unread' = FALSE
    /\ waitPc' = "idle"
    /\ UNCHANGED <<lastKeypress, polled, call, charLUT, keyArg, character>>
    /\ ForegroundFrame

\* KeyToCharLUT with the range test one lower
KeyToCharLUTOffByOne(lut, k) == IF k >= 0 /\ k < 16 THEN lut[k + 1] ELSE NUL

\* key_to_char(k) with the table lut active
KeyToCharLUT(lut, k) == IF k > 0 /\ k <= 16 THEN lut[k + 1] ELSE NUL

\* key_to_char(k)
KeyToChar(k) ==
    /\ Foreground
    /\ waitPc = "idle"
    /\ keyArg' = k
    /\ character' = KeyToCharLUT(charLUT, k)
    /\ call' = "key_to_char"
    /\ UNCHANGED <<lastKeypress, unread, waitPc, polled, key, charLUT>>
    /\ ForegroundFrame

\* key_get_char(): charLUT[key_get()]; past the table the char is indeterminate
KeyGetChar ==
    /\ Foreground
    /\ waitPc = "idle"
    /\ IF lastKeypress < Len(charLUT)
       THEN character' = charLUT[lastKeypress + 1]
       ELSE character' \in IndeterminateChars
    /\ call' = "key_get_char"
    /\ UNCHANGED <<lastKeypress, unread, waitPc, polled, key, charLUT, keyArg>>
    /\ ForegroundFrame

\* key_set_char_lut(newCharLUT)
KeySetCharLut(newCharLUT) ==
    /\ Foreground
    /\ waitPc = "idle"
    /\ charLUT' = newCharLUT
    /\ call' = "key_set_char_lut"
    /\ UNCHANGED <<lastKeypress, unread, waitPc, polled, key, keyArg, character>>
    /\ ForegroundFrame

NextKeypad ==
    \/ \E c \in Columns : Edge(c)
    \/ \E c \in Columns : Dispatch(c)
    \/ Mask
    \/ Reverse
    \/ \E r \in RowSamples : Sample(r)
    \/ Store
    \/ Restore
    \/ ClearPending
    \/ Unmask
    \/ KeyClear
    \/ KeyWaitClear("key_wait")
    \/ KeyWaitPoll

SpecKeypad == Init /\ [][NextKeypad]_vars

(***************************************************************************)
(* key_get_wait under interrupts: the handler for two columns and a few    *)
(* row values, the foreground calling key_get_wait again and again as      *)
(* main does.                                                              *)
(***************************************************************************)
WaitColumns == {0, 1}
WaitRowSamples == {0, 1, 2}

NextKeyGetWait ==
    \/ \E c \in WaitColumns : Edge(c)
    \/ \E c \in WaitColumns : Dispatch(c)
    \/ Mask
    \/ Reverse
    \/ \E r \in WaitRowSamples : Sample(r)
    \/ Store
    \/ Restore
    \/ ClearPending
    \/ Unmask
    \/ KeyWaitClear("key_get_wait")
    \/ KeyWaitPoll
    \/ KeyGetWaitRead

SpecKeyGetWait == Init /\ [][NextKeyGetWait]_vars

(***************************************************************************)
(* Keys pressed at any time: the handler for the first and the last column *)
(* and row values that include the out-of-table value 9, the foreground    *)
(* calling key_get_wait as main does.  Between two calls (waitPc = "idle") *)
(* the foreground is busy with the branch for the key, its LCD writes and  *)
(* their delays, and the handler runs as it does during a call.            *)
(***************************************************************************)
LossColumns == {0, 3}
LossRowSamples == {0, 1, 2, 9}

NextKeyLoss ==
    \/ \E c \in LossColumns : Edge(c)
    \/ \E c \in LossColumns : Dispatch(c)
    \/ Mask
    \/ Reverse
    \/ \E r \in LossRowSamples : Sample(r)
    \/ Store
    \/ Restore
    \/ ClearPending
    \/ Unmask
    \/ KeyWaitClear("key_get_wait")
    \/ KeyWaitPoll
    \/ KeyGetWaitRead

SpecKeyLoss == Init /\ [][NextKeyLoss]_vars

(***************************************************************************)
(* The character functions: tables installed with key_set_char_lut, key    *)
(* codes stored by the handler for column 0, key_to_char and key_get_char  *)
(* called in between.                                                      *)
(***************************************************************************)
\* two caller-supplied 17-entry tables, the second with an index-0 entry
\* that is not the NUL character
calculatorCharLUT ==
    <<NUL, "1", "2", "3", "+", "4", "5", "6", "-", "7", "8", "9", "*", "C", "0", "=", "/">>

markedCharLUT ==
    <<"?", "a", "b", "c", "d", "e", "f", "g", "h", "i", "j", "k", "l", "m", "n", "o", "p">>

CharTables == {defaultCharLUT, calculatorCharLUT, markedCharLUT}

\* the arguments key_to_char is called with
MaxKeyArg == 18
KeyArgs == (-2)..MaxKeyArg

CharColumns == {0}
CharRowSamples == {0, 1, 8, 9}

NextChars ==
    \/ \E c \in CharColumns : Edge(c)
    \/ \E c \in CharColumns : Dispatch(c)
    \/ Mask
    \/ Reverse
    \/ \E r \in CharRowSamples : Sample(r)
    \/ Store
    \/ Restore
    \/ ClearPending
    \/ Unmask
    \/ KeyClear
    \/ \E t \in CharTables : KeySetCharLut(t)
    \/ \E k \in KeyArgs : KeyToChar(k)
    \/ KeyGetChar

SpecChars == Init /\ [][NextChars]_vars

(***************************************************************************)
(* The LCD driver's cursor positioning, called with every column of a row  *)
(* and the rows 0 .. MaxCursorY.                                           *)
(***************************************************************************)
MaxCursorY == 2

\* lcd_cursor_set(x, y)
CursorSet(x, y) ==
    /\ cursorX' = x
    /\ cursorY' = y
    /\ lcdOut' = lcd_cursor_set(x, y)
    /\ call' = "lcd_cursor_set"
    /\ UNCHANGED <<opString, opStringLength, firstOperandLength, secondOperandLength,
                   operatorEntered, secondOperandEntered, resultDisplayed, key, firstOperand,
                   operatorChar, secondOperand, result, scanCount, terminatedLength,
                   divByZero, signedOverflow, fault, chain, pc>>
    /\ UNCHANGED <<lastKeypress, unread, charLUT, extiIMR, gpiocMODER, extiPR, isrPc, column, row,
                   waitPc, polled, keyArg, character, lcdPort>>

NextLcd == \E x \in 0..(LCD_ROW_LENGTH - 1), y \in 0..MaxCursorY : CursorSet(x, y)

SpecLcd == Init /\ [][NextLcd]_vars

(***************************************************************************)
(* lcd_init, statement by statement, from the reset state of the ports,    *)
(* followed by the cursor positioning calls of the running program.  A     *)
(* write reaches the display only through pins that are outputs: an input  *)
(* pin does not drive its line.                                            *)
(***************************************************************************)
LcdReset ==
    /\ gpioaMODER = "input"
    /\ gpiocControl = "input"
    /\ initPc = "clock"

InitBoot == MainInit /\ KeypadReady /\ LcdReset

\* the bus writes that reach the display
Driven(writes) ==
    IF gpioaMODER = "output" /\ gpiocControl = "output" THEN writes ELSE <<>>

\* what no statement of lcd_init touches
LcdInitFrame ==
    UNCHANGED <<opString, opStringLength, firstOperandLength, secondOperandLength,
                operatorEntered, secondOperandEntered, resultDisplayed, key, firstOperand,
                operatorChar, secondOperand, result, scanCount, terminatedLength,
                divByZero, signedOverflow, fault, chain, pc,
                lastKeypress, unread, charLUT, extiIMR, gpiocMODER, extiPR, isrPc, column,
                row, waitPc, polled, keyArg, character, cursorX, cursorY>>

\* *rccAHB1ENR |= RCC_AHB1ENR_GPIOAEN | RCC_AHB1ENR_GPIOCEN
LcdInitClock ==
    /\ initPc = "clock"
    /\ initPc' = "databus"
    /\ call' = "lcd_init"
    /\ UNCHANGED <<lcdOut, gpioaMODER, gpiocControl>>
    /\ LcdInitFrame

\* *gpioaMODER |= GPIOA_MODER_LCD_DATABUS_OUTPUT
LcdInitDatabus ==
    /\ initPc = "databus"
    /\ gpioaMODER' = "output"
    /\ initPc' = "control"
    /\ UNCHANGED <<lcdOut, call, gpiocControl>>
    /\ LcdInitFrame

\* *gpiocMODER |= RS, RW and E outputs
LcdInitControl ==
    /\ initPc = "control"
    /\ gpiocControl' = "output"
    /\ initPc' = "function_set"
    /\ UNCHANGED <<lcdOut, call, gpioaMODER>>
    /\ LcdInitFrame

\* one instruction of lcd_init
LcdInitWrite(at, writes, next) ==
    /\ initPc = at
    /\ lcdOut' = lcdOut \o Driven(writes)
    /\ initPc' = next
    /\ UNCHANGED <<call, gpioaMODER, gpiocControl>>
    /\ LcdInitFrame

\* lcd_instr_function_set(1, 1, 0), the first call
LcdInitFunctionSet ==
    LcdInitWrite("function_set", lcd_instr_function_set(1, 1, 0), "function_set_again")

\* lcd_instr_function_set(1, 1, 0), the second call
LcdInitFunctionSetAgain ==
    LcdInitWrite("function_set_again", lcd_instr_function_set(1, 1, 0), "display_on_off")

\* lcd_instr_display_on_off(1, 0, 1)
LcdInitDisplayOnOff ==
    LcdInitWrite("display_on_off", lcd_instr_display_on_off(1, 0, 1), "clear")

\* lcd_clear()
LcdInitClear == LcdInitWrite("clear", lcd_clear, "entry_mode_set")

\* lcd_instr_entry_mode_set(1, 0)
LcdInitEntryModeSet ==
    LcdInitWrite("entry_mode_set", lcd_instr_entry_mode_set(1, 0), "done")

\* the calls the program makes once lcd_init has returned
LcdPosition ==
    /\ initPc = "done"
    /\ \E x \in 0..(LCD_ROW_LENGTH - 1), y \in 0..MaxCursorY : CursorSet(x, y)

NextBoot ==
    \/ LcdInitClock
    \/ LcdInitDatabus
    \/ LcdInitControl
    \/ LcdInitFunctionSet
    \/ LcdInitFunctionSetAgain
    \/ LcdInitDisplayOnOff
    \/ LcdInitClear
    \/ LcdInitEntryModeSet
    \/ LcdPosition

SpecBoot == InitBoot /\ [][NextBoot]_vars

(***************************************************************************)
(* Properties.                                                             *)
(***************************************************************************)
\* the iteration that ends in the primed state handled an operator key
OperatorKeyHandled == IsOperatorKey(key') /\ ~IsDigitKey(key')

\* the iteration that ends in the primed state handled a digit key
DigitKeyHandled == IsDigitKey(key')

\* the iteration that ends in the primed state handled a clear key
ClearKeyHandled == ~IsDigitKey(key') /\ ~IsOperatorKey(key') /\ ~IsEqualsKey(key')

\* C1: once an operator has been accepted, an operator key pressed before any
\* second-operand digit is ignored: buffer, length counter, digit counters,
\* flags unchanged and nothing written to the display.
C1_SecondOperatorIgnored ==
    [][(OperatorKeyHandled /\ operatorEntered /\ ~secondOperandEntered)
          => (UNCHANGED entry /\ lcdOut' = <<>>)]_vars

\* C2: in every reachable state firstOperandLength <= 9 and
\* secondOperandLength <= 9.
C2_OperandLengthsAtMostNine ==
    firstOperandLength <= 9 /\ secondOperandLength <= 9

\* C3: the number of characters placed in the buffer, counting the terminator
\* written on equals, never exceeds 20.
C3_BufferAtMostTwenty == opStringLength <= 20 /\ terminatedLength <= 20

\* C7: the evaluation never executes an integer division whose divisor is 0.
C7_NoDivisionByZero == ~divByZero

\* C9: a key code that is not a digit, operator or equals code resets the
\* three counters to 0, clears the three flags and issues clear-display.
C9_ClearResets ==
    [][ClearKeyHandled
          => /\ opStringLength' = 0
             /\ firstOperandLength' = 0
             /\ secondOperandLength' = 0
             /\ ~operatorEntered'
             /\ ~secondOperandEntered'
             /\ ~resultDisplayed'
             /\ lcdOut' = <<[rs |-> 0, data |-> 1]>>]_vars

\* C9 witness: the clear branch handled code 13: the counters are zero, the
\* flags are clear and the clear-display instruction is on the bus.
C9_Witness ==
    /\ key = 13
    /\ opStringLength = 0 /\ firstOperandLength = 0 /\ secondOperandLength = 0
    /\ ~operatorEntered /\ ~secondOperandEntered /\ ~resultDisplayed
    /\ lcdOut = <<[rs |-> 0, data |-> 1]>>

\* C10: a digit key received while a result is displayed, or while the active
\* operand already holds 9 digits, is rejected: nothing appended, nothing
\* written to the LCD, counters and flags unchanged.
C10_DigitRejected ==
    [][(DigitKeyHandled /\ (resultDisplayed \/ ActiveLength = 9))
          => (UNCHANGED entry /\ lcdOut' = <<>>)]_vars

\* C10 witness: a digit key was handled and wrote nothing while the second
\* operand holds 9 digits.
C10_Witness ==
    /\ IsDigitKey(key)
    /\ lcdOut = <<>>
    /\ operatorEntered /\ secondOperandLength = 9 /\ ~resultDisplayed

\* the value of a wide number that is in the int range, 0 for one that is not
ExactOrZero(w) == IF FitsInt(w) THEN Low32(w) ELSE 0

RECURSIVE TextValue(_)
\* the number a text of at most nine decimal digits denotes
TextValue(t) ==
    IF t = <<>> THEN 0
    ELSE TextValue(SubSeq(t, 1, Len(t) - 1)) * 10 + DigitValue(t[Len(t)])

\* t is the decimal text of the int r: an optional minus sign, digits with no
\* leading zero, denoting r
IsDecimalTextOf(t, r) ==
    LET digits == IF r < 0 THEN Tail(t) ELSE t
        head == SubSeq(digits, 1, Len(digits) - 1)
        last == digits[Len(digits)]
    IN /\ Len(t) >= 1
       /\ r < 0 => t[1] = "-"
       /\ Len(digits) \in 1..10
       /\ \A i \in 1..Len(digits) : IsDigitChar(digits[i])
       /\ Len(digits) > 1 => digits[1] # "0"
       /\ TextValue(head) <= 214748364
       /\ IF r < 0
          THEN r = (0 - TextValue(head)) * 10 - DigitValue(last)
          ELSE r = TextValue(head) * 10 + DigitValue(last)

\* -|n|, which unlike |n| is an int for every int n
NegAbs(n) == IF n > 0 THEN 0 - n ELSE n

\* q is a / b truncated toward zero: a = q * b + r with |r| < |b| and r zero
\* or of the sign of a
IsTruncatedQuotient(q, a, b) ==
    LET r == WSub(Wide(a), WMul(Wide(q), Wide(b)))
    IN /\ FitsInt(r)
       /\ NegAbs(Low32(r)) > NegAbs(b)
       /\ Low32(r) # 0 => ((Low32(r) > 0) <=> (a > 0))

\* what firstOperand <op> secondOperand is to yield: the exact value, 0 when
\* it is outside the int range, 0 for a division by 0
Expected(a, op, b) ==
    CASE op = "+" -> ExactOrZero(WAdd(Wide(a), Wide(b)))
      [] op = "-" -> ExactOrZero(WSub(Wide(a), Wide(b)))
      [] op = "*" -> ExactOrZero(WMul(Wide(a), Wide(b)))
      [] op = "/" -> IF b = 0 THEN 0 ELSE TruncDivPos(a, b)

\* the equals key is handled on <1-9 digits><one operator><1-9 digits>,
\* entered since the last clear
SimpleExpressionEquals ==
    /\ IsEqualsKey(key') /\ ~IsDigitKey(key') /\ ~IsOperatorKey(key')
    /\ chain = 0 /\ ~resultDisplayed
    /\ firstOperandLength \in 1..9
    /\ secondOperandLength \in 1..9
    /\ OperatorCount = 1

\* C4: from the cleared state, 1 to 9 digit keys, one operator key, 1 to 9
\* digit keys and equals evaluate firstOperand <op> secondOperand and end with
\* resultDisplayed set, operatorEntered and secondOperandEntered cleared,
\* secondOperandLength = 0, the buffer equal to the decimal text of the
\* result and opStringLength = firstOperandLength = the length of that text.
C4_SimpleExpressionEvaluated ==
    [][SimpleExpressionEquals
          => /\ fault' = "none"
             /\ result' = Expected(TextValue(SubSeq(opString, 1, firstOperandLength)),
                                   opString[firstOperandLength + 1],
                                   TextValue(ActiveText))
             /\ resultDisplayed' /\ ~operatorEntered' /\ ~secondOperandEntered'
             /\ secondOperandLength' = 0
             /\ IsDecimalTextOf(opString', result')
             /\ opStringLength' = Len(opString')
             /\ firstOperandLength' = Len(opString')]_vars

\* C5: for '+' and '-' and every pair of ints the evaluation yields the exact
\* sum or difference when it is in [INT_MIN, INT_MAX] and 0 otherwise, and
\* no operation of the tests or of the evaluation leaves the int range.
C5_AddSubExactOrZero ==
    (pc = "evaluated" /\ operatorChar \in {"+", "-"})
        => /\ fault = "none"
           /\ ~signedOverflow
           /\ result = Expected(firstOperand, operatorChar, secondOperand)

\* C5 witness: INT_MAX + 1 was evaluated and yielded 0.
C5_Witness ==
    /\ pc = "evaluated"
    /\ operatorChar = "+" /\ firstOperand = INT_MAX /\ secondOperand = 1
    /\ result = 0

\* C6: for '*' and every pair of operands parsed from the buffer the
\* evaluation yields the exact product when it is in [INT_MIN, INT_MAX] and
\* 0 otherwise.
C6_MulExactOrZero ==
    (scanCount = 3 /\ operatorChar = "*")
        => /\ fault = "none"
           /\ result = Expected(firstOperand, operatorChar, secondOperand)

\* C8: for '/' the evaluation yields 0 when secondOperand is 0 and otherwise
\* the quotient firstOperand / secondOperand truncated toward zero.
C8_DivZeroOrQuotient ==
    (pc = "evaluated" /\ operatorChar = "/")
        => IF secondOperand = 0 THEN result = 0
           ELSE IsTruncatedQuotient(result, firstOperand, secondOperand)

\* C11: an operator key received while the buffer is empty, or once a second
\* operand has begun, is a no-op: buffer, counters and flags unchanged and
\* nothing written to the LCD (display contents and cursor stay as they are).
C11_OperatorNoOp ==
    [][(OperatorKeyHandled /\ (opStringLength = 0 \/ secondOperandEntered))
          => (UNCHANGED entry /\ lcdOut' = <<>>)]_vars

\* C11 witness: an operator key was handled with a second operand begun, and
\* nothing was written to the LCD.
C11_Witness ==
    /\ IsOperatorKey(key)
    /\ secondOperandEntered /\ secondOperandLength > 0
    /\ lcdOut = <<>>

\* C12: after key_init, under every interleaving of handler invocations
\* (any column, any sampled row value) with key_clear and key_wait, the
\* stored lastKeypress is in [0, 16].
C12_KeyCodeInRange == lastKeypress \in 0..16

\* C13: with the default table active key_to_char(k) returns the documented
\* character for every k in 1..16 and the sentinel for every other k.
C13_DefaultCharacters ==
    (call = "key_to_char" /\ charLUT = defaultCharLUT)
        => character =
             IF keyArg \in 1..16
             THEN <<"1", "2", "3", "A", "4", "5", "6", "B",
                    "7", "8", "9", "C", "*", "0", "#", "D">>[keyArg]
             ELSE NUL

\* C13 witness: key_to_char(16) returned 'D' with the default table active.
C13_Witness ==
    /\ call = "key_to_char" /\ charLUT = defaultCharLUT
    /\ keyArg = 16 /\ character = "D"

\* the step is a call of key_to_char
KeyToCharCalled == call' = "key_to_char" /\ (keyArg' # keyArg \/ character' # character \/ call # call')

\* the step is a call of key_get_char
KeyGetCharCalled == call' = "key_get_char" /\ (character' # character \/ call # call')

\* C14: with the table T installed, key_get_char returns T[lastKeypress],
\* key_to_char(k) returns T[k] for k in 1..16 and the index-0 entry of T for
\* every other k.
C14_ActiveTableUsed ==
    [][/\ KeyToCharCalled
           => character' = IF keyArg' \in 1..16 THEN charLUT[keyArg' + 1] ELSE charLUT[1]
       /\ KeyGetCharCalled
           => (lastKeypress \in 0..16 /\ character' = charLUT[lastKeypress + 1])]_vars

\* C15: key_get_wait returns the nonzero value the last iteration of its
\* polling loop read.
C15_ReturnsPolledKey ==
    [][(waitPc = "read" /\ waitPc' = "idle") => key' = polled]_vars

\* C16: lcd_cursor_set(x, y) issues one return-home instruction followed by
\* exactly y * 40 + x cursor-right shift instructions (opcode 16 + 4) and
\* nothing else.
C16_CursorSetSequence ==
    call = "lcd_cursor_set"
        => /\ Len(lcdOut) = 1 + cursorY * 40 + cursorX
           /\ lcdOut[1] = [rs |-> 0, data |-> 2]
           /\ \A i \in 2..Len(lcdOut) : lcdOut[i] = [rs |-> 0, data |-> 20]

\* C16 witness: lcd_cursor_set(15, 1) issued the home instruction and 55
\* shifts.
C16_Witness ==
    /\ call = "lcd_cursor_set"
    /\ cursorX = 15 /\ cursorY = 1
    /\ Len(lcdOut) = 56

\* the handler is past its mask statement and has not executed its unmask
Scanning == isrPc \in {"reverse", "sample", "store", "restore", "clear", "unmask"}

\* C17 as stated: the handler maps the raw row values 1..8 to the logical
\* rows 0,0,1,1,2,2,2,2 and stores that row * 4 + column + 1.
C17_RowDecodingAsStated ==
    [][(isrPc = "store" /\ row \in 1..8)
          => lastKeypress' = <<0, 0, 1, 1, 2, 2, 2, 2>>[row] * 4 + column + 1]_vars

\* C17 amended: the handler maps the raw row values 1..8 to the logical rows
\* 0,1,1,2,2,2,2,3 and stores that row * 4 + column + 1.
C17_RowDecoding ==
    [][(isrPc = "store" /\ row \in 1..8)
          => /\ row' = <<0, 1, 1, 2, 2, 2, 2, 3>>[row]
             /\ lastKeypress' = row' * 4 + column + 1]_vars

\* C17 witness: the handler for column 3 decoded the raw value 8 to row 3
\* and stored key code 16.
C17_Witness ==
    /\ isrPc = "restore"
    /\ column = 3 /\ row = 3
    /\ lastKeypress = 16

\* C18: while a handler invocation is between its mask statement and its
\* unmask statement the four lines stay masked, no edge is latched and no
\* invocation of the handler begins.
C18_NoReentry ==
    [][Scanning => (~extiIMR /\ extiPR' \subseteq extiPR /\ isrPc' # "mask")]_vars

\* C18 witness: a handler is sampling with the lines masked while the request
\* of another column, latched before the mask, waits for it to return.
C18_Witness ==
    /\ isrPc = "sample"
    /\ ~extiIMR
    /\ extiPR \ {column} # {}

\* (a step that changes isrPc is a statement of the handler)
\* C19: the handler restores the idle direction before it clears the pending
\* flag, clears the flag of its own column only and unmasks last; the lines
\* are never unmasked while the direction is reversed, and whenever no
\* handler executes the port is in the idle direction with the lines unmasked.
C19_RestoreClearUnmask ==
    /\ [](gpiocMODER = "reversed" => ~extiIMR)
    /\ [](isrPc = "idle" => (gpiocMODER = "idle" /\ extiIMR))
    /\ [][/\ (isrPc # "idle" /\ isrPc' # isrPc /\ extiPR' # extiPR)
             => (gpiocMODER = "idle" /\ ~extiIMR /\ extiPR' = extiPR \ {column})
          /\ (~extiIMR /\ extiIMR')
             => (isrPc' = "idle" /\ gpiocMODER = "idle" /\ column \notin extiPR)]_vars

\* C19 witness: a handler has cleared the flag of its own column, the flag of
\* another column is still set, the direction is idle and the lines are
\* still masked.
C19_Witness ==
    /\ isrPc = "unmask"
    /\ gpiocMODER = "idle" /\ ~extiIMR
    /\ column \notin extiPR /\ extiPR # {}

\* C20: a handler invocation that samples the row value 0 or a value above 9
\* leaves lastKeypress as it was: no statement of the handler but the store
\* for a row value in 1..9 changes it.
C20_InvalidRowKeepsKey ==
    [][(isrPc # "idle" /\ ~(isrPc = "store" /\ row \in 1..9))
          => lastKeypress' = lastKeypress]_vars

\* C20 witness: a handler sampled a row value above 9 and went past its store
\* with the key code 6, stored earlier, still in place.
C20_Witness ==
    /\ isrPc = "restore"
    /\ row > 9
    /\ lastKeypress = 6

\* C21: lcd_init issues exactly five instructions, in order: function set with
\* the 8-bit-interface, single-line and 5x8-font bits (bit5 | bit4 | bit3 | bit2),
\* the same again, display on / underline off / blink on (bit3 | bit2 | bit0),
\* clear display (bit0), entry mode set with increment and no shift (bit2 | bit1);
\* and every instruction is written with the port pins already outputs.
C21_InitSequence ==
    /\ (call = "lcd_init" /\ initPc \notin {"clock", "databus", "control"})
          => (gpioaMODER = "output" /\ gpiocControl = "output")
    /\ (call = "lcd_init" /\ initPc = "done")
          => lcdOut = lcd_write_instruction(60) \o lcd_write_instruction(60)
                      \o lcd_write_instruction(13) \o lcd_write_instruction(1)
                      \o lcd_write_instruction(6)

\* C22: every write into the 33-character buffer (digit, operator, terminator,
\* result write-back) is at an index in 0..32, and opStringLength never reaches
\* a value at which the next append would write outside the buffer.
C22_WritesInsideBuffer ==
    /\ fault # "overrun"
    /\ opStringLength <= OpStringSize - 1
    /\ Len(opString) <= OpStringSize

\* the iteration that ends in the primed state accepted the equals key
EqualsAccepted == key' = 15 /\ terminatedLength' > 0

\* t is a nonempty run of decimal digits
IsDigitRun(t) == Len(t) >= 1 /\ \A i \in 1..Len(t) : IsDigitChar(t[i])

\* t is a decimal integer, optionally negative
IsDecimalInteger(t) ==
    IF Len(t) >= 1 /\ t[1] = "-" THEN IsDigitRun(Tail(t)) ELSE IsDigitRun(t)

\* buf is <optionally negative decimal integer><one of + - * /><1 to 9 digits>
ExpressionForm(buf) ==
    \E i \in 2..Len(buf) :
        /\ buf[i] \in {"+", "-", "*", "/"}
        /\ IsDecimalInteger(SubSeq(buf, 1, i - 1))
        /\ IsDigitRun(SubSeq(buf, i + 1, Len(buf)))
        /\ Len(buf) - i <= OperandDigitCap

\* C23: whenever the equals key is accepted, the buffer holds <optionally
\* negative decimal integer><one of + - * /><1 to 9 decimal digits>, and the
\* scan assigns all three of firstOperand, operatorChar and secondOperand.
C23_ExpressionScanned ==
    [][EqualsAccepted => (ExpressionForm(opString) /\ scanCount' = 3)]_vars

\* key_get_wait returns
ReadStep == waitPc = "read" /\ waitPc' = "idle"

\* the handler assigns lastKeypress
StoreStep == isrPc = "store" /\ isrPc' = "restore" /\ ValidRow(row)

\* C24 as stated: no key code stored by the handler is discarded unread; under
\* every interleaving of the handler with the foreground, a nonzero value
\* written to lastKeypress is not cleared or overwritten before a key_get_wait
\* call has returned it.
C24_NoKeyDiscarded ==
    [][unread => (lastKeypress' = lastKeypress /\ ~StoreStep)]_vars

\* C24, amended: a stored key code is discarded unread by the clear that starts
\* the next key_get_wait call and by a later store of the handler; what a call
\* returns is the value lastKeypress holds at its read, a nonzero one being a
\* value the handler stored after the call's clear that no call returned
\* before, and during a call a stored value changes only by a later store.
C24_ReturnedStoredAfterClear ==
    [][/\ ReadStep => (key' = lastKeypress /\ (lastKeypress # 0 => unread))
       /\ (unread /\ waitPc # "idle") => (lastKeypress' = lastKeypress \/ StoreStep)]_vars

\* key_get_wait has returned the key code its polling saw, stored during the call
C24_Witness ==
    /\ call = "key_get_wait" /\ waitPc = "idle"
    /\ key = 8 /\ polled = 8 /\ lastKeypress = 8
    /\ ~unread
    /\ isrPc = "idle"

\* C25: in every state of the main loop, secondOperandEntered implies
\* operatorEntered; secondOperandEntered holds exactly when secondOperandLength
\* >= 1; resultDisplayed implies neither operatorEntered nor
\* secondOperandEntered; and operatorEntered implies opStringLength >= 2 and
\* firstOperandLength >= 1.
C25_FlagInvariants ==
    /\ secondOperandEntered => operatorEntered
    /\ secondOperandEntered <=> secondOperandLength >= 1
    /\ resultDisplayed => (~operatorEntered /\ ~secondOperandEntered)
    /\ operatorEntered => (opStringLength >= 2 /\ firstOperandLength >= 1)

\* a second operand is being entered after an operator that followed a
\* displayed result
C25_Witness ==
    /\ chain = 1 /\ ~resultDisplayed
    /\ operatorEntered /\ secondOperandEntered
    /\ secondOperandLength = 9
    /\ fault = "none"

====
